---- MODULE Spec2Model ----
(***************************************************************************)
(* Outline-to-presentation synthesis engine of AIPPT.                       *)
(*                                                                         *)
(* Python text is a sequence of one-character strings, so that strip,      *)
(* split, startswith and slicing are computed as the interpreter computes  *)
(* them.  Non-ASCII literals of the source are written as ASCII tokens.    *)
(* Exception messages are atomic strings; "" is the empty message.         *)
(***************************************************************************)
EXTENDS Integers, Sequences, FiniteSets, TLC

VARIABLES
    pc,              \* position of the request being served
    op,              \* operation that produced the recorded values
    outline,         \* outline text of the request
    template_info,   \* template_info dict of the request
    upstream,        \* what the generation collaborator did for this request
    content_data,    \* content payload (parser result / create_presentation argument)
    prs,             \* slides of the Presentation object, in emission order
    ppt_result,      \* what create_presentation returned or raised
    created,         \* create_presentation has been invoked by this request
    response,        \* what the generate-ppt endpoint answered
    outline_result,  \* OutlineGenerateResponse of generate_outline
    template_config, \* profile resolved for the request, or handed to
                     \* _create_diverse_content_slide
    slide_index,     \* slide index handed to _create_diverse_content_slide
    tier,            \* branch _parse_content_to_slides took for the content text
    stream,          \* outline stream on the server: collaborator script, service
                     \* generator and the events event_generator has sent
    client,          \* frontend consumer of the outline stream
    backend,         \* backend process: settings, AIService._global_config and
                     \* the AIService of each request it is serving
    output           \* output directory, clock and the create_presentation
                     \* calls of two generate-ppt requests

vars == <<pc, op, outline, template_info, upstream, content_data, prs, ppt_result,
          created, response, outline_result, template_config, slide_index, tier,
          stream, client, backend, output>>

\* state outside the synthesis calls
ext_vars == <<stream, client, backend, output>>

\* state of the synthesis calls other than pc and op
core_vars == <<outline, template_info, upstream, content_data, prs, ppt_result,
               created, response, outline_result, template_config, slide_index, tier>>

----------------------------------------------------------------------------
(* Bounds of the model *)

MaxOutlineLines == 2
MaxBlocks == 2
MaxContentLines == 2
MaxSlideIndex == 49
MaxTreeLines == 3
MaxItems == 3
MaxDeltas == 2
MaxClock == 1

----------------------------------------------------------------------------
(* Python str operations *)

NL == "\n"
Whitespace == {" ", NL}

RECURSIVE LStripChars(_, _)
LStripChars(s, cs) ==
    IF s = <<>> \/ Head(s) \notin cs THEN s ELSE LStripChars(Tail(s), cs)

RECURSIVE RStripChars(_, _)
RStripChars(s, cs) ==
    IF s = <<>> \/ s[Len(s)] \notin cs THEN s
    ELSE RStripChars(SubSeq(s, 1, Len(s) - 1), cs)

Strip(s) == LStripChars(RStripChars(s, Whitespace), Whitespace)

StartsWith(s, p) == Len(s) >= Len(p) /\ SubSeq(s, 1, Len(p)) = p

\* s[k:]
From(s, k) == SubSeq(s, k + 1, Len(s))

\* index of the first sep in s, 0 when there is none
RECURSIVE FindChar(_, _, _)
FindChar(s, sep, i) ==
    IF i > Len(s) THEN 0
    ELSE IF s[i] = sep THEN i
    ELSE FindChar(s, sep, i + 1)

\* s.split(sep): never empty, "".split(sep) is [""]
RECURSIVE Split(_, _)
Split(s, sep) ==
    LET i == FindChar(s, sep, 1) IN
    IF i = 0 THEN <<s>>
    ELSE <<SubSeq(s, 1, i - 1)>> \o Split(From(s, i), sep)

\* "\n".join(lines)
RECURSIVE Join(_)
Join(ls) ==
    IF ls = <<>> THEN <<>>
    ELSE IF Len(ls) = 1 THEN ls[1]
    ELSE ls[1] \o <<NL>> \o Join(Tail(ls))

\* truthiness of a str
Truthy(s) == s # ""

----------------------------------------------------------------------------
(* Template profile registry: PPTXService.template_configs *)

DefaultTemplate == "BusinessBlue"

template_configs ==
    [n \in {"BusinessBlue", "SimpleWhite", "VibrantOrange", "TechPurple", "NatureGreen"} |->
        CASE n = "BusinessBlue" ->
               [primary |-> <<31, 78, 121>>, secondary |-> <<217, 226, 243>>,
                accent |-> <<70, 130, 180>>, background |-> <<248, 249, 250>>,
                category |-> "business", has_layouts |-> TRUE,
                layouts |-> <<"title_content", "title_content_image", "two_column", "image_focus">>]
          [] n = "SimpleWhite" ->
               [primary |-> <<46, 46, 46>>, secondary |-> <<166, 166, 166>>,
                accent |-> <<102, 102, 102>>, background |-> <<255, 255, 255>>,
                category |-> "simple", has_layouts |-> TRUE,
                layouts |-> <<"title_content", "clean_layout", "minimal_image", "text_focus">>]
          [] n = "VibrantOrange" ->
               [primary |-> <<255, 107, 53>>, secondary |-> <<247, 147, 30>>,
                accent |-> <<255, 152, 0>>, background |-> <<255, 248, 230>>,
                category |-> "creative", has_layouts |-> TRUE,
                layouts |-> <<"dynamic_layout", "creative_image", "split_content", "visual_impact">>]
          [] n = "TechPurple" ->
               [primary |-> <<74, 21, 75>>, secondary |-> <<114, 9, 183>>,
                accent |-> <<139, 69, 19>>, background |-> <<250, 245, 255>>,
                category |-> "tech", has_layouts |-> TRUE,
                layouts |-> <<"tech_layout", "data_visual", "innovation_focus", "modern_grid">>]
          [] n = "NatureGreen" ->
               [primary |-> <<46, 125, 50>>, secondary |-> <<76, 175, 80>>,
                accent |-> <<200, 230, 201>>, background |-> <<248, 255, 248>>,
                category |-> "nature", has_layouts |-> TRUE,
                layouts |-> <<"organic_layout", "nature_image", "eco_design", "green_focus">>]]

\* template_info.get('name', default)
TemplateName(info, default) == IF info.has_name THEN info.name ELSE default

\* a lookup that falls back to another registered profile
ResolveTemplateOtherFallback(name) ==
    IF name \in DOMAIN template_configs THEN template_configs[name]
    ELSE template_configs["SimpleWhite"]

\* a lookup without a default: an unregistered name gets an empty profile
ResolveTemplateNoFallback(name) ==
    IF name \in DOMAIN template_configs THEN template_configs[name]
    ELSE [template_configs[DefaultTemplate] EXCEPT !.has_layouts = FALSE, !.layouts = <<>>]

\* self.template_configs.get(template_name, self.template_configs[DefaultTemplate])
ResolveTemplate(name) ==
    IF name \in DOMAIN template_configs THEN template_configs[name]
    ELSE template_configs[DefaultTemplate]

----------------------------------------------------------------------------
(* Slides of the Presentation object *)

DefaultTitle == <<"AI generated presentation">>
DefaultSlideTitle == <<"Title">>
ThanksTitle == <<"Thanks!">>
ThanksBody == <<"Thanks for listening", NL, "Looking forward to your feedback", NL, NL,
                "Generated by AI-PPTX">>
BulletMark == <<"(bullet)", " ">>

NoBlock == [isdict |-> FALSE, type |-> "", has_title |-> FALSE, title |-> <<>>,
            content |-> <<>>, section |-> 0]

\* an item of a "content" list: a str (kind "str"), a dict with or without the
\* keys 'point' and 'text' (kind "dict"), or any other value (kind "other");
\* repr is str(item)
StrItem(s) ==
    [kind |-> "str", str |-> s, has_point |-> FALSE, point |-> <<>>,
     has_text |-> FALSE, text |-> <<>>, repr |-> s]

\* a normalisation that prefers 'text' to 'point'
ItemTextPrefersText(item) ==
    IF item.kind = "str" THEN item.str
    ELSE IF item.kind = "dict"
    THEN IF item.has_text THEN item.text
         ELSE IF item.has_point THEN item.point
         ELSE item.repr
    ELSE item.repr

\* item if isinstance(item, str); item.get('point', item.get('text', str(item)))
\* if isinstance(item, dict); else str(item)
ItemText(item) ==
    IF item.kind = "str" THEN item.str
    ELSE IF item.kind = "dict"
    THEN IF item.has_point THEN item.point
         ELSE IF item.has_text THEN item.text
         ELSE item.repr
    ELSE item.repr

\* _add_bullet_content_to_frame: one paragraph per item, in order
BulletParagraphs(content_list) ==
    [i \in 1..Len(content_list) |-> BulletMark \o ItemText(content_list[i])]

\* PPTXService._create_enhanced_title_slide_with_images
TitleSlide(title, info, cfg) ==
    [kind |-> "title", layout |-> 0, title |-> title,
     body |-> << <<"Generated with AI", NL, "Template style: ", TemplateName(info, "unknown")>> >>,
     left |-> <<>>, right |-> <<>>, layout_type |-> "",
     background |-> cfg.background, title_color |-> cfg.primary,
     slide_data |-> NoBlock, index |-> -1]

\* PPTXService._create_enhanced_end_slide_with_images
EndSlide(cfg) ==
    [kind |-> "end", layout |-> 0, title |-> ThanksTitle,
     body |-> <<ThanksBody>>,
     left |-> <<>>, right |-> <<>>, layout_type |-> "",
     background |-> cfg.background, title_color |-> cfg.primary,
     slide_data |-> NoBlock, index |-> -1]

\* layouts[slide_index % len(layouts)]
LayoutTypeShifted(cfg, idx) ==
    LET layouts == IF cfg.has_layouts THEN cfg.layouts ELSE <<"title_content">>
    IN  layouts[((idx + 1) % Len(layouts)) + 1]

LayoutType(cfg, idx) ==
    LET layouts == IF cfg.has_layouts THEN cfg.layouts ELSE <<"title_content">>
    IN  layouts[(idx % Len(layouts)) + 1]

\* PPTXService._create_diverse_content_slide and the four slide builders it selects
DiverseContentSlide(slide_data, cfg, idx) ==
    LET layout_type == LayoutType(cfg, idx)
        title == IF slide_data.has_title THEN slide_data.title ELSE DefaultSlideTitle
        content_list == slide_data.content
        two_column == layout_type \in {"two_column", "split_content"} /\ Len(content_list) > 2
        mid_point == Len(content_list) \div 2
    IN  [kind |-> "content", layout |-> 1, title |-> title,
         body |-> IF two_column THEN <<>> ELSE BulletParagraphs(content_list),
         left |-> IF two_column THEN BulletParagraphs(SubSeq(content_list, 1, mid_point))
                  ELSE <<>>,
         right |-> IF two_column THEN BulletParagraphs(From(content_list, mid_point))
                   ELSE <<>>,
         layout_type |-> layout_type,
         background |-> cfg.background, title_color |-> cfg.primary,
         slide_data |-> slide_data, index |-> idx]

\* PPTXService._create_slides_from_outline_enhanced, from line i on:
\* cur is current_slide_data (has_cur = FALSE is None), n is slide_count
RECURSIVE OutlineSlidesFrom(_, _, _, _, _, _, _)
OutlineSlidesFrom(lines, i, cur, has_cur, n, slides, cfg) ==
    IF i > Len(lines)
    THEN IF has_cur THEN Append(slides, DiverseContentSlide(cur, cfg, n)) ELSE slides
    ELSE
        LET line == Strip(lines[i]) IN
        IF line = <<>> THEN OutlineSlidesFrom(lines, i + 1, cur, has_cur, n, slides, cfg)
        ELSE IF StartsWith(line, <<"#", "#", " ">>)
        THEN OutlineSlidesFrom(lines, i + 1,
                 [isdict |-> TRUE, type |-> "", has_title |-> TRUE,
                  title |-> Strip(From(line, 3)), content |-> <<>>, section |-> 0],
                 TRUE,
                 IF has_cur THEN n + 1 ELSE n,
                 IF has_cur THEN Append(slides, DiverseContentSlide(cur, cfg, n)) ELSE slides,
                 cfg)
        ELSE IF StartsWith(line, <<"-", " ">>) \/ StartsWith(line, <<"*", " ">>)
        THEN OutlineSlidesFrom(lines, i + 1,
                 IF has_cur
                 THEN [cur EXCEPT !.content = Append(@, StrItem(Strip(From(line, 2))))]
                 ELSE cur,
                 has_cur, n, slides, cfg)
        ELSE OutlineSlidesFrom(lines, i + 1, cur, has_cur, n, slides, cfg)

\* the same without the slide still open at the end of the outline
CreateSlidesFromOutlineNoFlush(outline_text, cfg) ==
    LET s == OutlineSlidesFrom(Split(Strip(outline_text), NL), 1, NoBlock, FALSE, 0, <<>>, cfg)
    IN  IF s = <<>> THEN s ELSE SubSeq(s, 1, Len(s) - 1)

CreateSlidesFromOutlineEnhanced(outline_text, cfg) ==
    OutlineSlidesFrom(Split(Strip(outline_text), NL), 1, NoBlock, FALSE, 0, <<>>, cfg)

\* "is not None" in place of truthiness
SlidesNotNone(data) == data.slides_ty \in {"list", "str"}

\* content_data.get('slides', []) is truthy
SlidesTruthy(data) ==
    \/ data.slides_ty = "list" /\ data.slides # <<>>
    \/ data.slides_ty = "str"

\* position of the first element of slides_data whose .get raises, 0 when none does
RECURSIVE FirstNonDict(_, _)
FirstNonDict(blocks, i) ==
    IF i > Len(blocks) THEN 0
    ELSE IF ~blocks[i].isdict THEN i
    ELSE FirstNonDict(blocks, i + 1)

\* for i, slide_data in enumerate(slides_data): the first upto elements
ContentSlidesOneBased(blocks, upto, cfg) ==
    [j \in 1..upto |-> DiverseContentSlide(blocks[j], cfg, j)]

ContentSlides(blocks, upto, cfg) ==
    [j \in 1..upto |-> DiverseContentSlide(blocks[j], cfg, j - 1)]

Raised(msg) ==
    [status |-> "raised", message |-> msg, slide_count |-> 0, template_used |-> ""]

\* lines[0].lstrip('# ').strip() if lines else <default>
PresentationTitle(outline_text) ==
    LET lines == Split(Strip(outline_text), NL)
    IN  IF lines # <<>> THEN Strip(LStripChars(lines[1], {"#", " "})) ELSE DefaultTitle

\* PPTXService.create_presentation: [prs, result]
CreatePresentation(outline_text, data, info) ==
    LET template_name == TemplateName(info, DefaultTemplate)
        cfg == ResolveTemplate(template_name)
        first == <<TitleSlide(PresentationTitle(outline_text), info, cfg)>>
    IN
    IF data.ty # "dict"
    THEN [prs |-> first, result |-> Raised("AttributeError: no attribute 'get'")]
    ELSE IF SlidesTruthy(data)
    THEN
        LET blocks == data.slides
            bad == IF data.slides_ty = "str" THEN 1 ELSE FirstNonDict(blocks, 1)
            upto == IF bad = 0 THEN Len(blocks) ELSE bad - 1
            body == ContentSlides(blocks, upto, cfg)
        IN  IF bad # 0
            THEN [prs |-> first \o body,
                  result |-> Raised("AttributeError: no attribute 'get'")]
            ELSE LET all == (first \o body) \o <<EndSlide(cfg)>>
                 IN  [prs |-> all,
                      result |-> [status |-> "returned", message |-> "",
                                  slide_count |-> Len(all),
                                  template_used |-> template_name]]
    ELSE
        LET all == (first \o CreateSlidesFromOutlineEnhanced(outline_text, cfg))
                       \o <<EndSlide(cfg)>>
        IN  [prs |-> all,
             result |-> [status |-> "returned", message |-> "",
                         slide_count |-> Len(all),
                         template_used |-> template_name]]

----------------------------------------------------------------------------
(* AIService parsers *)

\* line.startswith('# ') or line.startswith('## ') with a level-1 marker only
IsSectionLineLevelOneOnly(line) == StartsWith(line, <<"#", " ">>)

\* line.startswith('# ') or line.startswith('## ')
IsSectionLine(line) ==
    StartsWith(line, <<"#", " ">>) \/ StartsWith(line, <<"#", "#", " ">>)

\* line[2:].strip() after '# ', line[3:].strip() after '## '
SectionTitle(line) ==
    IF StartsWith(line, <<"#", " ">>) THEN Strip(From(line, 2)) ELSE Strip(From(line, 3))

\* a '###' line that opens a root when no section is open
OpenSubsectionOrRoot(tree, has_section, line) ==
    LET node == [title |-> Strip(From(line, 3)), level |-> 2, children |-> <<>>]
    IN  IF has_section
        THEN [tree EXCEPT ![Len(tree)].children = Append(@, node)]
        ELSE Append(tree, node)

\* a '###' line: a level-2 child of current_section, nothing without one
OpenSubsection(tree, has_section, line) ==
    IF has_section
    THEN [tree EXCEPT ![Len(tree)].children =
             Append(@, [title |-> Strip(From(line, 3)), level |-> 2,
                        children |-> <<>>])]
    ELSE tree

\* a '- ' line attached to current_section whatever current_subsection is
AttachItemToSection(tree, has_section, sub, line) ==
    IF has_section
    THEN [tree EXCEPT ![Len(tree)].children =
             Append(@, [title |-> Strip(From(line, 2)), level |-> 3,
                        children |-> <<>>])]
    ELSE tree

\* a '- ' line: a level-3 item appended to current_subsection, else to
\* current_section, else dropped
AttachItem(tree, has_section, sub, line) ==
    LET item == [title |-> Strip(From(line, 2)), level |-> 3, children |-> <<>>]
        last == Len(tree)
    IN  IF sub.root # 0
        THEN [tree EXCEPT ![sub.root].children[sub.child].children = Append(@, item)]
        ELSE IF has_section
        THEN [tree EXCEPT ![last].children = Append(@, item)]
        ELSE tree

\* current_subsection = None
NoSubsection == [root |-> 0, child |-> 0]

\* a new root that leaves current_subsection as it is
SubsectionKept(sub) == sub

\* current_subsection after a '# ' or '## ' line
SubsectionAfterRoot(sub) == NoSubsection

\* AIService._parse_outline_to_tree, from line i on: current_section is the last
\* root of tree (has_section = FALSE is None), current_subsection is child
\* sub.child of root sub.root (NoSubsection is None)
RECURSIVE OutlineTreeFrom(_, _, _, _, _)
OutlineTreeFrom(lines, i, tree, has_section, sub) ==
    IF i > Len(lines) THEN tree
    ELSE
        LET line == Strip(lines[i]) IN
        IF line = <<>> THEN OutlineTreeFrom(lines, i + 1, tree, has_section, sub)
        ELSE IF IsSectionLine(line)
        THEN OutlineTreeFrom(lines, i + 1,
                 Append(tree, [title |-> SectionTitle(line), level |-> 1,
                               children |-> <<>>]),
                 TRUE, SubsectionAfterRoot(sub))
        ELSE IF StartsWith(line, <<"#", "#", "#">>)
        THEN OutlineTreeFrom(lines, i + 1, OpenSubsection(tree, has_section, line),
                 has_section,
                 IF has_section
                 THEN [root |-> Len(tree), child |-> Len(tree[Len(tree)].children) + 1]
                 ELSE sub)
        ELSE IF StartsWith(line, <<"-", " ">>)
        THEN OutlineTreeFrom(lines, i + 1, AttachItem(tree, has_section, sub, line),
                 has_section, sub)
        ELSE OutlineTreeFrom(lines, i + 1, tree, has_section, sub)

\* a parser that takes the first line for the document title, not for a root
ParseOutlineToTreeTitleSkipped(markdown_content) ==
    LET lines == Split(Strip(markdown_content), NL)
    IN  OutlineTreeFrom(lines, 2, <<>>, FALSE, NoSubsection)

ParseOutlineToTree(markdown_content) ==
    OutlineTreeFrom(Split(Strip(markdown_content), NL), 1, <<>>, FALSE, NoSubsection)

\* a dict payload {"slides": [...]} without an error key
SlidesPayload(blocks) ==
    [ty |-> "dict", has_error |-> FALSE, error |-> "", slides_ty |-> "list",
     slides |-> blocks]

\* the dict {"error": msg, "slides": []}
ErrorPayload(msg) ==
    [ty |-> "dict", has_error |-> TRUE, error |-> msg, slides_ty |-> "list",
     slides |-> <<>>]

\* "section": len(slides) + 1
SectionZeroBased(slides) == Len(slides)

SectionOf(slides) == Len(slides) + 1

\* heuristic tier of AIService._parse_content_to_slides, from line i on:
\* cur is current_slide (has_cur = FALSE is None)
RECURSIVE FallbackSlidesFrom(_, _, _, _, _)
FallbackSlidesFrom(lines, i, slides, cur, has_cur) ==
    IF i > Len(lines)
    THEN IF has_cur THEN Append(slides, cur) ELSE slides
    ELSE
        LET line == Strip(lines[i]) IN
        IF line = <<>> THEN FallbackSlidesFrom(lines, i + 1, slides, cur, has_cur)
        ELSE IF StartsWith(line, <<"#">>)
        THEN LET closed == IF has_cur THEN Append(slides, cur) ELSE slides
             IN  FallbackSlidesFrom(lines, i + 1, closed,
                     [isdict |-> TRUE, type |-> "content", has_title |-> TRUE,
                      title |-> Strip(LStripChars(line, {"#"})), content |-> <<>>,
                      section |-> SectionOf(closed)],
                     TRUE)
        ELSE IF StartsWith(line, <<"-">>) /\ has_cur
        THEN FallbackSlidesFrom(lines, i + 1, slides,
                 [cur EXCEPT !.content = Append(@, StrItem(Strip(From(line, 1))))], has_cur)
        ELSE FallbackSlidesFrom(lines, i + 1, slides, cur, has_cur)

\* a parser without an except branch: the decoded value, whatever it is
ParseTierStrictOnly(content) == "strict"

\* the branch of try: json.loads(content) / except json.JSONDecodeError
ParseTier(content) == IF content.isjson THEN "strict" ELSE "fallback"

\* a parser that scans the lines of every text
ParseContentToSlidesScanOnly(content) ==
    SlidesPayload(
        FallbackSlidesFrom(Split(Strip(content.text), NL), 1, <<>>, NoBlock, FALSE))

\* a parser that leaves out the block still open at the end of the text
ParseContentToSlidesDropOpen(content) ==
    IF ParseTier(content) = "strict" THEN content.value
    ELSE LET all == FallbackSlidesFrom(Split(Strip(content.text), NL), 1, <<>>,
                                       NoBlock, FALSE)
         IN  SlidesPayload(SubSeq(all, 1, Len(all) - 1))

\* AIService._parse_content_to_slides on a str: content.isjson says json.loads
\* succeeds and content.value is what it returns; otherwise the lines of
\* content.text are scanned
ParseContentToSlides(content) ==
    IF ParseTier(content) = "strict" THEN content.value
    ELSE SlidesPayload(
             FallbackSlidesFrom(Split(Strip(content.text), NL), 1, <<>>, NoBlock, FALSE))

\* AIService.generate_content after the collaborator call: up is what the call did
GenerateContent(up) ==
    IF up.kind = "raise" THEN ErrorPayload(up.msg)
    ELSE IF up.kind = "none"
    THEN ErrorPayload("TypeError: object of type 'NoneType' has no len()")
    ELSE LET parsed_slides == ParseContentToSlides(up.content) IN
         IF parsed_slides.ty # "dict"
         THEN ErrorPayload("AttributeError: no attribute 'get'")
         ELSE IF parsed_slides.slides_ty = "null"
         THEN ErrorPayload("TypeError: object of type 'NoneType' has no len()")
         ELSE parsed_slides

\* AIService.generate_outline after the collaborator call (the error_message
\* None of a success is written "")
GenerateOutline(up) ==
    IF up.kind = "raise"
    THEN [outline_markdown |-> <<>>, outline_tree |-> <<>>, status |-> "error",
          error_message |-> up.msg]
    ELSE IF up.kind = "none"
    THEN [outline_markdown |-> <<>>, outline_tree |-> <<>>, status |-> "error",
          error_message |-> "TypeError: object of type 'NoneType' has no len()"]
    ELSE [outline_markdown |-> up.content.text,
          outline_tree |-> ParseOutlineToTree(up.content.text),
          status |-> "success", error_message |-> ""]

----------------------------------------------------------------------------
(* Inputs *)

SeqsUpTo(S, n) == UNION {[1..k -> S] : k \in 0..n}

OutlineLineSet ==
    { <<"#", " ", "T">>, <<"#", "#", " ", "A">>, <<"#", "#", " ", "B">>,
      <<"-", " ", "x">>, <<"*", " ", "y">>, <<>> }

Outlines == {Join(ls) : ls \in SeqsUpTo(OutlineLineSet, MaxOutlineLines)}

\* lines of a text handed to _parse_outline_to_tree: the markers it tells apart
\* (level-1 and level-2 headings, deeper headings, "- " items), a "* " item,
\* a bare marker, plain text and a blank line
TreeLineSet ==
    { <<"#", " ", "T">>, <<"#", "#", " ", "A">>, <<"#", "#", "#", " ", "S">>,
      <<"#", "#", "#", "#", " ", "D">>, <<"-", " ", "x">>, <<"*", " ", "y">>,
      <<"#", " ">>, <<"t">>, <<>> }

\* the outline of the prompt's format: a title, two sections and their items
ExampleOutline ==
    <<"#", " ", "T", "o", "p", "i", "c", NL, "#", "#", " ", "I", "n", "t",
      "r", "o", NL, "-", " ", "p", "o", "i", "n", "t", " ", "a", NL, "#",
      "#", " ", "B", "o", "d", "y", NL, "-", " ", "p", "o", "i", "n", "t",
      " ", "b", NL, "-", " ", "p", "o", "i", "n", "t", " ", "c">>

\* a subsection under the first root, then a second root with an item
ResetOutline ==
    <<"#", " ", "T", NL, "#", "#", "#", " ", "S", NL, "#", "#", " ", "A", NL,
      "-", " ", "x">>

TreeTexts ==
    {Join(ls) : ls \in SeqsUpTo(TreeLineSet, MaxTreeLines)}
    \cup {ExampleOutline, ResetOutline}

ContentLineSet ==
    { <<"#", " ", "A">>, <<"#", "#", "B">>, <<"-", " ", "x">>, <<"-", "y">>,
      <<"t">> }

NullPayload ==
    [ty |-> "none", has_error |-> FALSE, error |-> "", slides_ty |-> "absent",
     slides |-> <<>>]

\* elements a decoded "slides" array can hold: the two records of the prompt's
\* own format (both of section 1), a record without a title, and a number
BlockSet ==
    { [isdict |-> TRUE, type |-> "title", has_title |-> TRUE, title |-> <<"T">>,
       content |-> <<>>, section |-> 1],
      [isdict |-> TRUE, type |-> "content", has_title |-> TRUE, title |-> <<"C">>,
       content |-> <<StrItem(<<"p">>), StrItem(<<"q">>), StrItem(<<"r">>)>>,
       section |-> 1],
      [isdict |-> TRUE, type |-> "content", has_title |-> FALSE, title |-> <<>>,
       content |-> <<StrItem(<<"p">>)>>, section |-> 2],
      NoBlock }

\* items of a block's "content" list: a str, a dict with 'point' and 'text', a
\* dict with 'text' only, a dict with neither, and a number
ItemSet ==
    { StrItem(<<"p">>),
      [kind |-> "dict", str |-> <<>>, has_point |-> TRUE, point |-> <<"a">>,
       has_text |-> TRUE, text |-> <<"b">>,
       repr |-> <<"{'point': 'a', 'text': 'b'}">>],
      [kind |-> "dict", str |-> <<>>, has_point |-> FALSE, point |-> <<>>,
       has_text |-> TRUE, text |-> <<"b">>, repr |-> <<"{'text': 'b'}">>],
      [kind |-> "dict", str |-> <<>>, has_point |-> FALSE, point |-> <<>>,
       has_text |-> FALSE, text |-> <<>>, repr |-> <<"{'k': 1}">>],
      [kind |-> "other", str |-> <<>>, has_point |-> FALSE, point |-> <<>>,
       has_text |-> FALSE, text |-> <<>>, repr |-> <<"7">>] }

\* content blocks whose bullet list mixes the item kinds
ItemBlocks ==
    {[isdict |-> TRUE, type |-> "content", has_title |-> TRUE, title |-> <<"C">>,
      content |-> items, section |-> 1] : items \in SeqsUpTo(ItemSet, MaxItems)}

\* what json.loads can return for a content text: a dict whose "slides" is a
\* list of elements, is absent, is a non-empty string ("str") or is null; a
\* dict that carries its own "error" key; a list
JsonValues ==
    {SlidesPayload(bs) : bs \in SeqsUpTo(BlockSet, MaxBlocks)}
    \cup { [ty |-> "dict", has_error |-> FALSE, error |-> "", slides_ty |-> t,
            slides |-> <<>>] : t \in {"absent", "str", "null"} }
    \cup { [ty |-> "dict", has_error |-> TRUE, error |-> "quota", slides_ty |-> "list",
            slides |-> <<>>],
           [ty |-> "list", has_error |-> FALSE, error |-> "", slides_ty |-> "absent",
            slides |-> <<>>] }

\* a text of two headings and their items
ExampleContent ==
    <<"#", " ", "A", NL, "-", " ", "x", NL, "-", " ", "y", NL, "#", " ", "B", NL,
      "-", " ", "z">>

\* content texts: JSON documents, and texts json.loads rejects
ContentTexts ==
    {[isjson |-> TRUE, value |-> v, text |-> <<>>] : v \in JsonValues}
    \cup {[isjson |-> FALSE, value |-> NullPayload, text |-> t] :
             t \in {Join(ls) : ls \in SeqsUpTo(ContentLineSet, MaxContentLines)}
                      \cup {ExampleContent}}

NullContent == [isjson |-> FALSE, value |-> NullPayload, text |-> <<>>]

\* what the chat-completion call can do: raise (the message may be empty, as
\* str(asyncio.TimeoutError()) is), answer without content, or answer a text
Failures ==
    {[kind |-> "raise", msg |-> m, content |-> NullContent] : m \in {"", "timeout"}}
    \cup {[kind |-> "none", msg |-> "", content |-> NullContent]}

ContentUpstreams ==
    Failures \cup {[kind |-> "text", msg |-> "", content |-> c] : c \in ContentTexts}

OutlineUpstreams ==
    Failures \cup {[kind |-> "text", msg |-> "",
                    content |-> [isjson |-> FALSE, value |-> NullPayload, text |-> o]] :
                       o \in Outlines}

NullUpstream == [kind |-> "idle", msg |-> "", content |-> NullContent]

NullInfo == [has_name |-> FALSE, name |-> ""]

\* template_info dicts: registered names, a name of init_db.py that the registry
\* lacks, and a dict without 'name'
TemplateInfos ==
    {[has_name |-> TRUE, name |-> n] :
        n \in {"BusinessBlue", "TechPurple", "ElegantGrey"}}
    \cup {NullInfo}

\* rows of the templates table that get_template can find
DbTemplates == {"BusinessBlue", "ElegantGrey"}

\* profiles handed to _create_diverse_content_slide: the registry's, the same
\* with shorter layout lists, and one without 'layouts'
Profiles ==
    {[template_configs[n] EXCEPT !.layouts = SubSeq(@, 1, k)] :
        n \in DOMAIN template_configs, k \in 1..4}
    \cup {[template_configs[DefaultTemplate] EXCEPT !.has_layouts = FALSE, !.layouts = <<>>]}

NullResult == [status |-> "none", message |-> "", slide_count |-> 0, template_used |-> ""]
NullResponse == [status |-> "none", code |-> 0, detail |-> "", data |-> NullResult]
NullOutlineResult ==
    [outline_markdown |-> <<>>, outline_tree |-> <<>>, status |-> "none",
     error_message |-> ""]

----------------------------------------------------------------------------
(* Streaming outline generation: AIService.generate_outline_stream, the SSE
   event_generator of the endpoint and the frontend consumer *)

\* chunk.choices[0].delta of the collaborator's stream: content is a str
\* (possibly empty) or None
NoneDelta == [has_content |-> FALSE, content |-> <<>>]

DeltaSet ==
    {[has_content |-> TRUE, content |-> c] : c \in {<<"a">>, <<"b">>, <<>>}}
    \cup {NoneDelta}

\* what the collaborator does for one streaming call: create() raises, or it
\* returns a stream that sends deltas and then ends or raises
StreamScripts ==
    {[create_raises |-> TRUE, deltas |-> <<>>, raises |-> TRUE, msg |-> m] :
        m \in {"", "timeout"}}
    \cup {[create_raises |-> FALSE, deltas |-> ds, raises |-> FALSE, msg |-> ""] :
             ds \in SeqsUpTo(DeltaSet, MaxDeltas)}
    \cup {[create_raises |-> FALSE, deltas |-> ds, raises |-> TRUE, msg |-> m] :
             ds \in SeqsUpTo(DeltaSet, MaxDeltas), m \in {"", "timeout"}}

NullScript == [create_raises |-> FALSE, deltas |-> <<>>, raises |-> FALSE, msg |-> ""]

\* svc: "none" no stream, "create" awaiting create(), "open" iterating the
\* stream, "failed" the except branch has yielded its text, "finished"
\* event_generator has sent its last event, "closed" the generators were closed
NullStream ==
    [script |-> NullScript, pos |-> 0, svc |-> "none", total_content |-> <<>>,
     sse |-> <<>>]

\* st.session_state.project_data['outline_content'] before the stream
StoredOutline == <<"o", "l", "d">>

NullClient ==
    [state |-> "none", pos |-> 0, collected_content |-> <<>>,
     outline_content |-> StoredOutline]

\* f"<error prefix>{str(e)}" of the service's except branch
ErrorText(msg) == <<"Error: ">> \o (IF msg = "" THEN <<>> ELSE <<msg>>)

\* the data of one SSE event: {'content': chunk}, {'status': 'complete'} and
\* {'status': 'error', 'message': msg}; none has the keys 'type',
\* 'full_content' or 'outline_markdown', which read as their defaults
ContentEvent(chunk) ==
    [has_type |-> FALSE, type |-> "", has_content |-> TRUE, content |-> chunk,
     has_status |-> FALSE, status |-> "", message |-> "",
     full_content |-> <<>>, outline_markdown |-> <<>>]

CompleteEvent ==
    [has_type |-> FALSE, type |-> "", has_content |-> FALSE, content |-> <<>>,
     has_status |-> TRUE, status |-> "complete", message |-> "",
     full_content |-> <<>>, outline_markdown |-> <<>>]

ErrorEvent(msg) ==
    [has_type |-> FALSE, type |-> "", has_content |-> FALSE, content |-> <<>>,
     has_status |-> TRUE, status |-> "error", message |-> msg,
     full_content |-> <<>>, outline_markdown |-> <<>>]

\* the events event_generator sends for the text the service's except branch yields
EventsOnFailure(msg) == <<ContentEvent(ErrorText(msg))>>

\* chunk.choices[0].delta.content is not None
YieldsDelta(delta) == delta.has_content

----------------------------------------------------------------------------
(* Provider and model configuration: settings, AIService._global_config,
   AIService.__init__, switch_model and the _apply_*_config methods.  None
   is the empty string; a client object is the key and base URL it was
   built with. *)

Requests == {"r1", "r2"}

NoClientObject == [api_key |-> "", base_url |-> ""]

AsyncOpenAI(api_key, base_url) == [api_key |-> api_key, base_url |-> base_url]

DEEPSEEK_BASE_URL == "https://api.deepseek.com/v1"
OPENAI_BASE_URL == "https://api.openai.com/v1"
ANTHROPIC_BASE_URL == "https://api.anthropic.com"
DEEPSEEK_MODEL == "deepseek-chat"
OPENAI_MODEL == "gpt-3.5-turbo"
ANTHROPIC_MODEL == "claude-3-sonnet-20240229"

\* the API keys the environment gives the backend
SettingsSet ==
    { [DEEPSEEK_API_KEY |-> "sk-env-ds", OPENAI_API_KEY |-> "sk-env-oa",
       ANTHROPIC_API_KEY |-> ""],
      [DEEPSEEK_API_KEY |-> "", OPENAI_API_KEY |-> "sk-env-oa",
       ANTHROPIC_API_KEY |-> "sk-env-an"],
      [DEEPSEEK_API_KEY |-> "", OPENAI_API_KEY |-> "",
       ANTHROPIC_API_KEY |-> "sk-env-an"],
      [DEEPSEEK_API_KEY |-> "", OPENAI_API_KEY |-> "", ANTHROPIC_API_KEY |-> ""] }

NullSettings ==
    [DEEPSEEK_API_KEY |-> "", OPENAI_API_KEY |-> "", ANTHROPIC_API_KEY |-> ""]

\* AIService._global_config as the class statement leaves it
NullGlobalConfig ==
    [provider |-> "", model |-> "", api_key |-> "", api_url |-> "",
     client |-> NoClientObject]

\* current_provider, current_model and client of an instance, all None
NullService == [provider |-> "", model |-> "", client |-> NoClientObject]

\* _initialize_default_client: the first configured key wins, none raises
InitializeDefaultClient(settings) ==
    IF settings.DEEPSEEK_API_KEY # ""
    THEN [raised |-> FALSE,
          svc |-> [provider |-> "DeepSeek", model |-> DEEPSEEK_MODEL,
                   client |-> AsyncOpenAI(settings.DEEPSEEK_API_KEY,
                                          DEEPSEEK_BASE_URL)]]
    ELSE IF settings.OPENAI_API_KEY # ""
    THEN [raised |-> FALSE,
          svc |-> [provider |-> "OpenAI", model |-> OPENAI_MODEL,
                   client |-> AsyncOpenAI(settings.OPENAI_API_KEY,
                                          OPENAI_BASE_URL)]]
    ELSE IF settings.ANTHROPIC_API_KEY # ""
    THEN [raised |-> FALSE,
          svc |-> [provider |-> "Anthropic", model |-> ANTHROPIC_MODEL,
                   client |-> AsyncOpenAI(settings.ANTHROPIC_API_KEY,
                                          ANTHROPIC_BASE_URL)]]
    ELSE [raised |-> TRUE, svc |-> NullService]

\* AIService(db): the saved configuration when it holds a client, else the default
NewService(global_config, settings) ==
    IF global_config.client # NoClientObject
    THEN [raised |-> FALSE,
          svc |-> [provider |-> global_config.provider,
                   model |-> global_config.model,
                   client |-> global_config.client]]
    ELSE InitializeDefaultClient(settings)

\* get_available_models: model names listed for a provider, {} when the
\* provider has no key in the settings
AvailableModels(settings, provider) ==
    IF provider = "DeepSeek" /\ settings.DEEPSEEK_API_KEY # ""
    THEN {"deepseek-chat", "deepseek-coder"}
    ELSE IF provider = "OpenAI" /\ settings.OPENAI_API_KEY # ""
    THEN {"gpt-4o", "gpt-4o-mini", "gpt-4-turbo", "gpt-3.5-turbo"}
    ELSE IF provider = "Anthropic" /\ settings.ANTHROPIC_API_KEY # ""
    THEN {"claude-3-5-sonnet-20241022", "claude-3-sonnet-20240229",
          "claude-3-haiku-20240307"}
    ELSE {}

\* switch_model, validation loop
ProviderFound(settings, provider) == AvailableModels(settings, provider) # {}

ModelFound(settings, provider, model) == model \in AvailableModels(settings, provider)

\* the client switch_model and its rollback build for a provider; a provider
\* without a branch leaves the client as it is
ClientFor(settings, provider, self_client) ==
    IF provider = "DeepSeek"
    THEN AsyncOpenAI(settings.DEEPSEEK_API_KEY, DEEPSEEK_BASE_URL)
    ELSE IF provider = "OpenAI"
    THEN AsyncOpenAI(settings.OPENAI_API_KEY, OPENAI_BASE_URL)
    ELSE IF provider = "Anthropic"
    THEN AsyncOpenAI(settings.ANTHROPIC_API_KEY, ANTHROPIC_BASE_URL)
    ELSE self_client

\* switch_model after validation: new client, provider and model
Switched(settings, svc, provider, model) ==
    [provider |-> provider, model |-> model,
     client |-> ClientFor(settings, provider, svc.client)]

\* switch_model when the connection test fails
RolledBack(settings, svc, old_provider, old_model) ==
    IF old_provider # "" /\ old_model # ""
    THEN [provider |-> old_provider, model |-> old_model,
          client |-> ClientFor(settings, old_provider, svc.client)]
    ELSE svc

\* bodies of save-api-config requests
SaveConfigs ==
    { [provider |-> "custom", api_key |-> "sk-user",
       custom_api_url |-> "http://llm.local/v1", custom_model_name |-> "my-model"],
      [provider |-> "custom", api_key |-> "sk-user",
       custom_api_url |-> "", custom_model_name |-> "my-model"],
      [provider |-> "deepseek", api_key |-> "sk-user",
       custom_api_url |-> "", custom_model_name |-> ""],
      [provider |-> "openai", api_key |-> "sk-user",
       custom_api_url |-> "", custom_model_name |-> ""],
      [provider |-> "azure", api_key |-> "sk-user",
       custom_api_url |-> "", custom_model_name |-> ""] }

\* save_api_config raises ValueError
SaveRejected(config) ==
    \/ /\ config.provider = "custom"
       /\ (config.custom_api_url = "" \/ config.custom_model_name = "")
    \/ config.provider \notin {"custom", "openai", "deepseek"}

\* _apply_custom_config, _apply_openai_config, _apply_deepseek_config: the
\* fields written to the instance and to _global_config
AppliedConfig(config) ==
    IF config.provider = "custom"
    THEN [provider |-> "Custom", model |-> config.custom_model_name,
          api_key |-> config.api_key, api_url |-> config.custom_api_url,
          client |-> AsyncOpenAI(config.api_key, config.custom_api_url)]
    ELSE IF config.provider = "openai"
    THEN [provider |-> "OpenAI", model |-> "gpt-3.5-turbo",
          api_key |-> config.api_key, api_url |-> OPENAI_BASE_URL,
          client |-> AsyncOpenAI(config.api_key, OPENAI_BASE_URL)]
    ELSE [provider |-> "DeepSeek", model |-> "deepseek-chat",
          api_key |-> config.api_key, api_url |-> DEEPSEEK_BASE_URL,
          client |-> AsyncOpenAI(config.api_key, DEEPSEEK_BASE_URL)]

ServiceOf(cfg) == [provider |-> cfg.provider, model |-> cfg.model, client |-> cfg.client]

\* (provider, model) pairs of switch-model requests
SwitchTargets ==
    { [provider |-> "OpenAI", model |-> "gpt-4o"],
      [provider |-> "DeepSeek", model |-> "deepseek-coder"],
      [provider |-> "Anthropic", model |-> "claude-3-haiku-20240307"],
      [provider |-> "OpenAI", model |-> "no-such-model"],
      [provider |-> "Custom", model |-> "my-model"] }

\* get_current_provider and _get_model_name
CurrentProvider(svc) == IF svc.provider # "" THEN svc.provider ELSE "unconfigured"

ModelName(svc) == IF svc.model # "" THEN svc.model ELSE "deepseek-chat"

\* the last switch or save the backend answered with success, by its endpoint
NoneCurrent == [set |-> FALSE, by |-> "", provider |-> "", model |-> ""]

\* a request slot of the backend: phase is none, testing (switch_model
\* awaits the connection test), suspended (generation awaits the
\* collaborator), finished (answered) or failed (HTTP 500)
NullRequest ==
    [phase |-> "none", endpoint |-> "", svc |-> NullService,
     init |-> NullService, seen |-> NoneCurrent, pre |-> NullService,
     old_provider |-> "", old_model |-> "", starts |-> NullService,
     success |-> "none",
     reported |-> [provider |-> "", model |-> ""]]

NullBackend ==
    [settings |-> NullSettings, global_config |-> NullGlobalConfig,
     current |-> NoneCurrent, req |-> [r \in Requests |-> NullRequest]]

----------------------------------------------------------------------------
(* Output directory of PPTXService: two generate-ppt requests that run
   create_presentation on one event loop.  A deck is the Presentation a
   request built, named by the request and its number of slides. *)

NullDeck == [owner |-> "", slide_count |-> 0]

\* f"generated_ppt_{timestamp}.pptx" with timestamp = int(time.time())
Filename(timestamp) == <<"generated_ppt_", timestamp, ".pptx">>

NullFilename == <<"", 0, "">>

\* prs.save(output_path): the file of that name is created or replaced
Saved(files, filename, deck) ==
    {f \in files : f.filename # filename} \cup {[filename |-> filename, deck |-> deck]}

\* a generate-ppt request inside create_presentation: phase is none,
\* building (between the timestamp and the save) or returned
NullJob ==
    [phase |-> "none", deck |-> NullDeck, timestamp |-> 0,
     filename |-> NullFilename,
     result |-> [filename |-> NullFilename, slide_count |-> 0]]

DeckSizes == {2, 3}

NullOutput == [clock |-> 0, files |-> {}, job |-> [r \in Requests |-> NullJob]]

----------------------------------------------------------------------------
(* State machine *)

Init ==
    /\ pc = "idle"
    /\ op = "none"
    /\ outline = <<>>
    /\ template_info = NullInfo
    /\ upstream = NullUpstream
    /\ content_data = NullPayload
    /\ prs = <<>>
    /\ ppt_result = NullResult
    /\ created = FALSE
    /\ response = NullResponse
    /\ outline_result = NullOutlineResult
    /\ template_config = template_configs[DefaultTemplate]
    /\ slide_index = -1
    /\ tier = "none"
    /\ stream = NullStream
    /\ client = NullClient
    /\ backend = NullBackend
    /\ output = NullOutput

\* a direct call of PPTXService.create_presentation, as test_direct_pptx_service makes
CallCreatePresentation ==
    /\ pc = "idle"
    /\ \E o \in Outlines, d \in JsonValues, info \in TemplateInfos :
        LET r == CreatePresentation(o, d, info) IN
        /\ outline' = o
        /\ content_data' = d
        /\ template_info' = info
        /\ prs' = r.prs
        /\ ppt_result' = r.result
        /\ template_config' = ResolveTemplate(TemplateName(info, DefaultTemplate))
    /\ op' = "create_presentation"
    /\ created' = TRUE
    /\ upstream' = NullUpstream
    /\ response' = NullResponse
    /\ outline_result' = NullOutlineResult
    /\ slide_index' = -1
    /\ tier' = "none"
    /\ pc' = "done"
    /\ UNCHANGED ext_vars

\* a call of PPTXService._create_diverse_content_slide on a fresh presentation
CallCreateDiverseContentSlide ==
    /\ pc = "idle"
    /\ \E cfg \in Profiles, idx \in 0..MaxSlideIndex :
        /\ template_config' = cfg
        /\ slide_index' = idx
        /\ tier' = "none"
        /\ prs' = <<DiverseContentSlide(
                        CHOOSE b \in BlockSet : b.type = "content" /\ b.has_title,
                        cfg, idx)>>
    /\ op' = "create_diverse_content_slide"
    /\ outline' = <<>>
    /\ template_info' = NullInfo
    /\ upstream' = NullUpstream
    /\ content_data' = NullPayload
    /\ ppt_result' = NullResult
    /\ created' = FALSE
    /\ response' = NullResponse
    /\ outline_result' = NullOutlineResult
    /\ pc' = "done"
    /\ UNCHANGED ext_vars

\* a call of PPTXService._create_diverse_content_slide with the default profile
\* at an index that selects the standard builder (0) or the two-column one (2)
CallCreateBulletSlide ==
    /\ pc = "idle"
    /\ \E b \in ItemBlocks, idx \in {0, 2} :
        /\ slide_index' = idx
        /\ prs' = <<DiverseContentSlide(b, template_configs[DefaultTemplate], idx)>>
    /\ op' = "create_bullet_slide"
    /\ template_config' = template_configs[DefaultTemplate]
    /\ outline' = <<>>
    /\ template_info' = NullInfo
    /\ upstream' = NullUpstream
    /\ content_data' = NullPayload
    /\ ppt_result' = NullResult
    /\ created' = FALSE
    /\ response' = NullResponse
    /\ outline_result' = NullOutlineResult
    /\ tier' = "none"
    /\ pc' = "done"
    /\ UNCHANGED ext_vars

\* a call of AIService._parse_content_to_slides
CallParseContentToSlides ==
    /\ pc = "idle"
    /\ \E c \in ContentTexts :
        /\ upstream' = [kind |-> "text", msg |-> "", content |-> c]
        /\ content_data' = ParseContentToSlides(c)
        /\ tier' = ParseTier(c)
    /\ op' = "parse_content_to_slides"
    /\ outline' = <<>>
    /\ template_info' = NullInfo
    /\ prs' = <<>>
    /\ ppt_result' = NullResult
    /\ created' = FALSE
    /\ response' = NullResponse
    /\ outline_result' = NullOutlineResult
    /\ template_config' = template_configs[DefaultTemplate]
    /\ slide_index' = -1
    /\ pc' = "done"
    /\ UNCHANGED ext_vars

\* AIService.generate_outline
CallGenerateOutline ==
    /\ pc = "idle"
    /\ \E up \in OutlineUpstreams :
        /\ upstream' = up
        /\ outline_result' = GenerateOutline(up)
    /\ op' = "generate_outline"
    /\ outline' = <<>>
    /\ template_info' = NullInfo
    /\ content_data' = NullPayload
    /\ prs' = <<>>
    /\ ppt_result' = NullResult
    /\ created' = FALSE
    /\ response' = NullResponse
    /\ template_config' = template_configs[DefaultTemplate]
    /\ slide_index' = -1
    /\ tier' = "none"
    /\ pc' = "done"
    /\ UNCHANGED ext_vars

\* a call of AIService._parse_outline_to_tree
CallParseOutlineToTree ==
    /\ pc = "idle"
    /\ \E t \in TreeTexts :
        /\ outline' = t
        /\ outline_result' = [outline_markdown |-> t,
                              outline_tree |-> ParseOutlineToTree(t),
                              status |-> "returned", error_message |-> ""]
    /\ op' = "parse_outline_to_tree"
    /\ template_info' = NullInfo
    /\ upstream' = NullUpstream
    /\ content_data' = NullPayload
    /\ prs' = <<>>
    /\ ppt_result' = NullResult
    /\ created' = FALSE
    /\ response' = NullResponse
    /\ template_config' = template_configs[DefaultTemplate]
    /\ slide_index' = -1
    /\ tier' = "none"
    /\ pc' = "done"
    /\ UNCHANGED ext_vars

\* generate_ppt up to its await of ai_service.generate_content; a template_id
\* that get_template does not find is answered 404
GeneratePptRequest ==
    /\ pc = "idle"
    /\ \E o \in Outlines :
        /\ outline' = o
        /\ \/ \E n \in DbTemplates :
                /\ template_info' = [has_name |-> TRUE, name |-> n]
                /\ response' = NullResponse
                /\ pc' = "generate_content"
           \/ /\ template_info' = NullInfo
              /\ response' = [status |-> "http_error", code |-> 404,
                              detail |-> "template not found", data |-> NullResult]
              /\ pc' = "done"
    /\ op' = "generate_ppt"
    /\ upstream' = NullUpstream
    /\ content_data' = NullPayload
    /\ prs' = <<>>
    /\ ppt_result' = NullResult
    /\ created' = FALSE
    /\ outline_result' = NullOutlineResult
    /\ template_config' = template_configs[DefaultTemplate]
    /\ slide_index' = -1
    /\ tier' = "none"
    /\ UNCHANGED ext_vars

\* the collaborator call of AIService.generate_content ends and generate_content returns
GenerateContentReturns ==
    /\ pc = "generate_content"
    /\ \E up \in ContentUpstreams :
        /\ upstream' = up
        /\ content_data' = GenerateContent(up)
        /\ tier' = IF up.kind = "text" THEN ParseTier(up.content) ELSE "none"
    /\ pc' = "content_done"
    /\ UNCHANGED <<op, outline, template_info, prs, ppt_result, created, response,
                   outline_result, template_config, slide_index>>
    /\ UNCHANGED ext_vars

\* content_result.get('error')
ErrorIndicator(data) == data.has_error /\ Truthy(data.error)

\* generate_ppt from the check of content_result to its answer
GeneratePptFinish ==
    /\ pc = "content_done"
    /\ IF ErrorIndicator(content_data)
       THEN /\ response' = [status |-> "http_error", code |-> 500,
                            detail |-> content_data.error, data |-> NullResult]
            /\ UNCHANGED <<prs, ppt_result, created, template_config>>
       ELSE LET r == CreatePresentation(outline, content_data, template_info) IN
            /\ created' = TRUE
            /\ template_config' =
                 ResolveTemplate(TemplateName(template_info, DefaultTemplate))
            /\ prs' = r.prs
            /\ ppt_result' = r.result
            /\ response' =
                 IF r.result.status = "raised"
                 THEN [status |-> "http_error", code |-> 500,
                       detail |-> r.result.message, data |-> NullResult]
                 ELSE [status |-> "ok", code |-> 200, detail |-> "", data |-> r.result]
    /\ pc' = "done"
    /\ UNCHANGED <<op, outline, template_info, upstream, content_data, outline_result,
                   slide_index, tier>>
    /\ UNCHANGED ext_vars

\* Streaming outline generation: the actions

\* the frontend opens the stream: requests.post(..., stream=True)
StreamRequest ==
    /\ pc = "idle"
    /\ \E sc \in StreamScripts :
        stream' = [NullStream EXCEPT !.script = sc, !.svc = "create"]
    /\ client' = [NullClient EXCEPT !.state = "reading"]
    /\ pc' = "stream"
    /\ op' = "generate_outline_stream"
    /\ UNCHANGED <<core_vars, backend, output>>

\* await self.client.chat.completions.create(..., stream=True) returns or raises
StreamCreate ==
    /\ pc = "stream"
    /\ stream.svc = "create"
    /\ client.state = "reading"
    /\ stream' =
         IF stream.script.create_raises
         THEN [stream EXCEPT !.svc = "failed",
                             !.sse = @ \o EventsOnFailure(stream.script.msg)]
         ELSE [stream EXCEPT !.svc = "open"]
    /\ UNCHANGED <<pc, op, core_vars, client, backend, output>>

\* one iteration of "async for chunk in stream"
StreamDelta ==
    /\ pc = "stream"
    /\ stream.svc = "open"
    /\ client.state = "reading"
    /\ stream.pos < Len(stream.script.deltas)
    /\ LET delta == stream.script.deltas[stream.pos + 1] IN
       stream' =
         IF YieldsDelta(delta)
         THEN [stream EXCEPT !.pos = @ + 1,
                             !.total_content = @ \o delta.content,
                             !.sse = Append(@, ContentEvent(delta.content))]
         ELSE [stream EXCEPT !.pos = @ + 1]
    /\ UNCHANGED <<pc, op, core_vars, client, backend, output>>

\* the collaborator's stream raises: the except branch yields its text
StreamRaises ==
    /\ pc = "stream"
    /\ stream.svc = "open"
    /\ client.state = "reading"
    /\ stream.pos = Len(stream.script.deltas)
    /\ stream.script.raises
    /\ stream' = [stream EXCEPT !.svc = "failed",
                                !.sse = @ \o EventsOnFailure(stream.script.msg)]
    /\ UNCHANGED <<pc, op, core_vars, client, backend, output>>

\* the service generator is exhausted (the stream ended, or the except branch
\* was left): event_generator sends the complete event
StreamEnds ==
    /\ pc = "stream"
    /\ client.state = "reading"
    /\ \/ stream.svc = "failed"
       \/ /\ stream.svc = "open"
          /\ stream.pos = Len(stream.script.deltas)
          /\ ~stream.script.raises
    /\ stream' = [stream EXCEPT !.svc = "finished", !.total_content = <<>>,
                                !.sse = Append(@, CompleteEvent)]
    /\ UNCHANGED <<pc, op, core_vars, client, backend, output>>

\* a consumer that keeps what it has seen of every event
ClientAfterEventKeeping(c, data) ==
    [c EXCEPT !.pos = @ + 1,
              !.collected_content = @ \o data.content,
              !.outline_content = c.collected_content \o data.content]

\* the body of "for event in client.events()" of the frontend for one event
ClientAfterEvent(c, data) ==
    IF data.has_type /\ data.type = "content"
    THEN [c EXCEPT !.pos = @ + 1, !.collected_content = data.full_content]
    ELSE IF data.has_type /\ data.type = "complete"
    THEN [c EXCEPT !.pos = @ + 1, !.outline_content = data.outline_markdown,
                   !.state = "done"]
    ELSE IF data.has_type /\ data.type = "error"
    THEN [c EXCEPT !.pos = @ + 1, !.state = "done"]
    ELSE [c EXCEPT !.pos = @ + 1]

\* the frontend takes the next event
ClientReads ==
    /\ pc = "stream"
    /\ client.state = "reading"
    /\ client.pos < Len(stream.sse)
    /\ client' = ClientAfterEvent(client, stream.sse[client.pos + 1])
    /\ UNCHANGED <<pc, op, core_vars, stream, backend, output>>

\* the response is exhausted: the frontend's loop ends
ClientFinishes ==
    /\ pc = "stream"
    /\ client.state \in {"reading", "done"}
    /\ stream.svc = "finished"
    /\ client.state = "reading" => client.pos = Len(stream.sse)
    /\ client' = [client EXCEPT !.state = "done", !.collected_content = <<>>]
    /\ pc' = "done"
    /\ UNCHANGED <<op, core_vars, stream, backend, output>>

\* the consumer leaves before the last event has arrived: its locals are gone,
\* the connection closes and the suspended generators are closed with it
ClientAbandons ==
    /\ pc = "stream"
    /\ client.state = "reading"
    /\ ~(stream.svc = "finished" /\ client.pos = Len(stream.sse))
    /\ client' = [client EXCEPT !.state = "abandoned", !.collected_content = <<>>]
    /\ stream' = [stream EXCEPT !.svc = "closed", !.total_content = <<>>]
    /\ pc' = "done"
    /\ UNCHANGED <<op, core_vars, backend, output>>

\* the caller has its answer; nothing of the request is kept
\* the backend process starts with the settings of its environment
BackendStarts ==
    /\ pc = "idle"
    /\ \E s \in SettingsSet : backend' = [NullBackend EXCEPT !.settings = s]
    /\ pc' = "backend"
    /\ op' = "backend"
    /\ UNCHANGED <<core_vars, stream, client, output>>

\* service = AIService(db) at the head of an endpoint
Arrived(endpoint) ==
    LET new == NewService(backend.global_config, backend.settings)
    IN  [NullRequest EXCEPT !.endpoint = endpoint,
                            !.svc = new.svc,
                            !.init = new.svc,
                            !.seen = backend.current,
                            !.phase = IF new.raised THEN "failed" ELSE "constructed"]

\* POST /switch-model up to the await of the connection test
SwitchModelRequest(r) ==
    /\ pc = "backend"
    /\ backend.req[r].phase = "none"
    /\ \E t \in SwitchTargets :
         LET a == Arrived("switch-model")
             found == /\ ProviderFound(backend.settings, t.provider)
                      /\ ModelFound(backend.settings, t.provider, t.model)
         IN  backend' = [backend EXCEPT !.req[r] =
                 IF a.phase = "failed" THEN a
                 ELSE IF ~found
                 THEN [a EXCEPT !.phase = "finished", !.success = "false",
                                !.pre = a.svc]
                 ELSE [a EXCEPT !.phase = "testing",
                                !.pre = a.svc,
                                !.old_provider = a.svc.provider,
                                !.old_model = a.svc.model,
                                !.svc = Switched(backend.settings, a.svc,
                                                 t.provider, t.model)]]
    /\ UNCHANGED <<pc, op, core_vars, stream, client, output>>

\* _test_model_connection returns: success is answered, failure rolls back
SwitchModelTested(r) ==
    /\ pc = "backend"
    /\ backend.req[r].phase = "testing"
    /\ \E passed \in BOOLEAN :
         LET q == backend.req[r]
         IN  backend' =
               IF passed
               THEN [backend EXCEPT
                       !.req[r] = [q EXCEPT !.phase = "finished", !.success = "true"],
                       !.current = [set |-> TRUE, by |-> "switch-model",
                                    provider |-> q.svc.provider,
                                    model |-> q.svc.model]]
               ELSE [backend EXCEPT
                       !.req[r] = [q EXCEPT !.phase = "finished", !.success = "false",
                                            !.svc = RolledBack(backend.settings, q.svc,
                                                               q.old_provider,
                                                               q.old_model)]]
    /\ UNCHANGED <<pc, op, core_vars, stream, client, output>>

\* POST /save-api-config: no await between construction and answer
SaveApiConfigRequest(r) ==
    /\ pc = "backend"
    /\ backend.req[r].phase = "none"
    /\ \E config \in SaveConfigs :
         LET a == Arrived("save-api-config")
             cfg == AppliedConfig(config)
         IN  backend' =
               IF a.phase = "failed" THEN [backend EXCEPT !.req[r] = a]
               ELSE IF SaveRejected(config)
               THEN [backend EXCEPT !.req[r] = [a EXCEPT !.phase = "failed"]]
               ELSE [backend EXCEPT
                       !.req[r] = [a EXCEPT !.phase = "finished", !.success = "true",
                                            !.svc = ServiceOf(cfg)],
                       !.global_config = cfg,
                       !.current = [set |-> TRUE, by |-> "save-api-config",
                                    provider |-> cfg.provider, model |-> cfg.model]]
    /\ UNCHANGED <<pc, op, core_vars, stream, client, output>>

\* GET /provider
ProviderRequest(r) ==
    /\ pc = "backend"
    /\ backend.req[r].phase = "none"
    /\ LET a == Arrived("provider")
       IN  backend' = [backend EXCEPT !.req[r] =
               IF a.phase = "failed" THEN a
               ELSE [a EXCEPT !.phase = "finished", !.success = "true",
                              !.reported = [provider |-> CurrentProvider(a.svc),
                                            model |-> ModelName(a.svc)]]]
    /\ UNCHANGED <<pc, op, core_vars, stream, client, output>>

\* POST /generate-outline up to the await of the collaborator
GenerateOutlineRequest(r) ==
    /\ pc = "backend"
    /\ backend.req[r].phase = "none"
    /\ LET a == Arrived("generate-outline")
       IN  backend' = [backend EXCEPT !.req[r] =
               IF a.phase = "failed" THEN a
               ELSE [a EXCEPT !.phase = "suspended", !.starts = a.svc]]
    /\ UNCHANGED <<pc, op, core_vars, stream, client, output>>

\* the collaborator answers the generation call
GenerateOutlineReturns(r) ==
    /\ pc = "backend"
    /\ backend.req[r].phase = "suspended"
    /\ LET q == backend.req[r]
       IN  backend' = [backend EXCEPT !.req[r] =
               [q EXCEPT !.phase = "finished", !.success = "true",
                         !.reported = [provider |-> CurrentProvider(q.svc),
                                       model |-> ModelName(q.svc)]]]
    /\ UNCHANGED <<pc, op, core_vars, stream, client, output>>

\* the backend has answered every request it took
BackendStops ==
    /\ pc = "backend"
    /\ \A r \in Requests : backend.req[r].phase \in {"none", "finished", "failed"}
    /\ \E r \in Requests : backend.req[r].phase # "none"
    /\ pc' = "done"
    /\ UNCHANGED <<op, core_vars, ext_vars>>

\* two generate-ppt requests reach create_presentation
OutputStarts ==
    /\ pc = "idle"
    /\ output' = NullOutput
    /\ pc' = "output"
    /\ op' = "concurrent_generate_ppt"
    /\ UNCHANGED <<core_vars, stream, client, backend>>

\* time.time() passes a whole second
ClockTicks ==
    /\ pc = "output"
    /\ output.clock < MaxClock
    /\ output' = [output EXCEPT !.clock = @ + 1]
    /\ UNCHANGED <<pc, op, core_vars, stream, client, backend>>

\* create_presentation up to its first await: timestamp, filename, Presentation()
CreatePresentationStarts(r) ==
    /\ pc = "output"
    /\ output.job[r].phase = "none"
    /\ \E n \in DeckSizes :
         output' = [output EXCEPT !.job[r] =
             [NullJob EXCEPT !.phase = "building",
                             !.deck = [owner |-> r, slide_count |-> n],
                             !.timestamp = output.clock,
                             !.filename = Filename(output.clock)]]
    /\ UNCHANGED <<pc, op, core_vars, stream, client, backend>>

\* create_presentation after its last await: prs.save(output_path) and the result
CreatePresentationSaves(r) ==
    /\ pc = "output"
    /\ output.job[r].phase = "building"
    /\ LET j == output.job[r]
       IN  output' = [output EXCEPT
               !.files = Saved(@, j.filename, j.deck),
               !.job[r] = [j EXCEPT !.phase = "returned",
                                    !.result = [filename |-> j.filename,
                                                slide_count |-> j.deck.slide_count]]]
    /\ UNCHANGED <<pc, op, core_vars, stream, client, backend>>

\* both requests have been answered
OutputStops ==
    /\ pc = "output"
    /\ \A r \in Requests : output.job[r].phase = "returned"
    /\ pc' = "done"
    /\ UNCHANGED <<op, core_vars, ext_vars>>

Return ==
    /\ pc = "done"
    /\ pc' = "idle"
    /\ op' = "none"
    /\ outline' = <<>>
    /\ template_info' = NullInfo
    /\ upstream' = NullUpstream
    /\ content_data' = NullPayload
    /\ prs' = <<>>
    /\ ppt_result' = NullResult
    /\ created' = FALSE
    /\ response' = NullResponse
    /\ outline_result' = NullOutlineResult
    /\ template_config' = template_configs[DefaultTemplate]
    /\ slide_index' = -1
    /\ tier' = "none"
    /\ stream' = NullStream
    /\ client' = NullClient
    /\ backend' = NullBackend
    /\ output' = NullOutput

Next ==
    \/ CallCreatePresentation
    \/ CallCreateDiverseContentSlide
    \/ CallCreateBulletSlide
    \/ CallParseContentToSlides
    \/ CallGenerateOutline
    \/ CallParseOutlineToTree
    \/ GeneratePptRequest
    \/ GenerateContentReturns
    \/ GeneratePptFinish
    \/ StreamRequest
    \/ StreamCreate
    \/ StreamDelta
    \/ StreamRaises
    \/ StreamEnds
    \/ ClientReads
    \/ ClientFinishes
    \/ ClientAbandons
    \/ BackendStarts
    \/ \E r \in Requests : SwitchModelRequest(r)
    \/ \E r \in Requests : SwitchModelTested(r)
    \/ \E r \in Requests : SaveApiConfigRequest(r)
    \/ \E r \in Requests : ProviderRequest(r)
    \/ \E r \in Requests : GenerateOutlineRequest(r)
    \/ \E r \in Requests : GenerateOutlineReturns(r)
    \/ BackendStops
    \/ OutputStarts
    \/ ClockTicks
    \/ \E r \in Requests : CreatePresentationStarts(r)
    \/ \E r \in Requests : CreatePresentationSaves(r)
    \/ OutputStops
    \/ Return

Spec == Init /\ [][Next]_vars

----------------------------------------------------------------------------
(* Properties *)

\* the content blocks handed to create_presentation
BlocksOf(data) == IF data.slides_ty = "list" THEN data.slides ELSE <<>>

\* create_presentation was called and returned a document
Returned == created /\ pc = "done" /\ ppt_result.status = "returned"

\* the lines of the outline that open a section ("## " after stripping)
SectionLines(text) ==
    LET lines == Split(Strip(text), NL)
    IN  {i \in 1..Len(lines) : StartsWith(Strip(lines[i]), <<"#", "#", " ">>)}

Bookends ==
    /\ Len(prs) >= 2
    /\ prs[1].kind = "title"
    /\ prs[Len(prs)].kind = "end"
    /\ \A p \in 2..(Len(prs) - 1) : prs[p].kind = "content"

\* C1 as stated: every returned document has one leading title slide, one
\* trailing closing slide, and slide_count = m + 2 for its m content blocks
C1_BookendsAndCountAsStated ==
    Returned => /\ Bookends
                /\ ppt_result.slide_count = Len(BlocksOf(content_data)) + 2

\* C1 amended: every returned document has one leading title slide and one
\* trailing closing slide; slide_count = m + 2 when m >= 1, and with m = 0 it
\* is 2 plus the number of "## " lines of the outline
C1_BookendsAndCount ==
    Returned =>
        LET m == Len(BlocksOf(content_data)) IN
        /\ Bookends
        /\ ppt_result.slide_count = Len(prs)
        /\ m >= 1 => ppt_result.slide_count = m + 2
        /\ m = 0 => ppt_result.slide_count = 2 + Cardinality(SectionLines(outline))

C1_Witness ==
    /\ Returned
    /\ Len(BlocksOf(content_data)) = MaxBlocks
    /\ ppt_result.slide_count = MaxBlocks + 2

\* C2 as stated: with an empty content-block sequence the result has exactly
\* two slides and slide_count = 2, whatever the outline is
C2_EmptyContentTwoSlidesAsStated ==
    (Returned /\ content_data.slides_ty = "list" /\ content_data.slides = <<>>)
        => Len(prs) = 2 /\ ppt_result.slide_count = 2

\* C2 amended: with an empty content-block sequence the result is the title and
\* closing slides alone exactly when the outline has no "## " line; every
\* "## " line of the outline adds one slide titled by that line
C2_EmptyContentFollowsOutline ==
    (Returned /\ content_data.slides_ty = "list" /\ content_data.slides = <<>>)
        => LET lines == Split(Strip(outline), NL)
               secs == SectionLines(outline)
           IN  /\ (ppt_result.slide_count = 2) <=> (secs = {})
               /\ Len(prs) = 2 + Cardinality(secs)
               /\ {prs[p].title : p \in 2..(Len(prs) - 1)}
                     = {Strip(From(Strip(lines[i]), 3)) : i \in secs}

C2_Witness ==
    /\ Returned
    /\ op = "create_presentation"
    /\ content_data.slides_ty = "list" /\ content_data.slides = <<>>
    /\ SectionLines(outline) = {}
    /\ outline # <<>>
    /\ ppt_result.slide_count = 2

\* C3: the title slide is first, block j (0-based) is the slide after it at
\* position j, built with slide index j, and the closing slide is last
C3_EmissionOrder ==
    Returned =>
        LET blocks == BlocksOf(content_data)
            layouts == ResolveTemplate(TemplateName(template_info, DefaultTemplate)).layouts
        IN  /\ prs[1].kind = "title"
            /\ prs[Len(prs)].kind = "end"
            /\ \A p \in 2..(Len(prs) - 1) : prs[p].kind = "content"
            /\ blocks # <<>> => Len(prs) = Len(blocks) + 2
            /\ \A j \in 1..Len(blocks) :
                  /\ prs[j + 1].slide_data = blocks[j]
                  /\ prs[j + 1].index = j - 1
                  /\ prs[j + 1].layout_type = layouts[((j - 1) % Len(layouts)) + 1]

C3_Witness ==
    /\ Returned
    /\ Len(BlocksOf(content_data)) = MaxBlocks
    /\ content_data.slides[1] # content_data.slides[MaxBlocks]
    /\ prs[MaxBlocks + 1].slide_data = content_data.slides[MaxBlocks]

\* the layout list _create_diverse_content_slide reads from a profile
LayoutsOf(cfg) == IF cfg.has_layouts THEN cfg.layouts ELSE <<"title_content">>

\* C4: for a profile with k layouts (k in 1..4) and slide index i, the variant
\* chosen by _create_diverse_content_slide is layouts[i mod k]; it repeats
\* with period k
C4_LayoutRotation ==
    (op = "create_diverse_content_slide" /\ pc = "done") =>
        LET layouts == LayoutsOf(template_config)
            k == Len(layouts)
        IN  /\ k \in 1..4
            /\ prs[1].layout_type = layouts[(slide_index % k) + 1]
            /\ \A i \in 0..MaxSlideIndex :
                  (i % k = slide_index % k)
                      => DiverseContentSlide(prs[1].slide_data, template_config, i).layout_type
                             = prs[1].layout_type

C4_Witness ==
    /\ op = "create_diverse_content_slide" /\ pc = "done"
    /\ Len(LayoutsOf(template_config)) = 3
    /\ slide_index = 49
    /\ prs[1].layout_type = template_config.layouts[2]

\* C5 as stated: on both tiers the section indices of the returned blocks are
\* 1, 2, 3, ... in emission order
C5_SectionsIncreaseAsStated ==
    (op = "parse_content_to_slides" /\ pc = "done"
        /\ content_data.ty = "dict" /\ content_data.slides_ty = "list"
        /\ \A j \in 1..Len(content_data.slides) : content_data.slides[j].isdict)
    => \A j \in 1..Len(content_data.slides) : content_data.slides[j].section = j

\* C5 amended: on the heuristic fallback tier the section indices of the
\* returned blocks are 1, 2, 3, ... in emission order (the structured tier
\* returns the payload's own section values)
C5_FallbackSectionsIncrease ==
    (op = "parse_content_to_slides" /\ pc = "done" /\ ~upstream.content.isjson)
    => /\ content_data.ty = "dict" /\ content_data.slides_ty = "list"
       /\ \A j \in 1..Len(content_data.slides) : content_data.slides[j].section = j

C5_Witness ==
    /\ op = "parse_content_to_slides" /\ pc = "done"
    /\ ~upstream.content.isjson
    /\ Len(content_data.slides) = 2
    /\ content_data.slides[2].section = 2

\* C6: when the collaborator call of content generation raises, generate-ppt
\* never invokes create_presentation and ends with an error and no document
C6_UpstreamFailureShortCircuits ==
    (op = "generate_ppt" /\ upstream.kind = "raise") =>
        /\ ~created
        /\ pc = "done" => (response.status = "http_error" /\ prs = <<>>)

\* C7: for every payload generate_content returns without an error indicator,
\* create_presentation returns a result instead of raising
C7_AssemblerDoesNotFail ==
    (op = "generate_ppt" /\ pc = "done" /\ created) => ppt_result.status = "returned"

\* C8: when the collaborator call of generate_outline raises, the result has
\* status "error", an empty outline tree and a non-empty message
C8_OutlineFailureResult ==
    (op = "generate_outline" /\ pc = "done" /\ upstream.kind = "raise") =>
        /\ outline_result.status = "error"
        /\ outline_result.outline_tree = <<>>
        /\ outline_result.error_message # ""

\* the collaborator answered with empty text or with no content
EmptyResponse ==
    \/ upstream.kind = "none"
    \/ upstream.kind = "text" /\ ~upstream.content.isjson /\ upstream.content.text = <<>>

\* C9: an empty collaborator response is an upstream failure: generate_outline
\* returns status "error" with an empty tree, generate_content an error
\* indicator with an empty slide sequence
C9_EmptyResponseIsFailure ==
    /\ (op = "generate_outline" /\ pc = "done" /\ EmptyResponse) =>
          (outline_result.status = "error" /\ outline_result.outline_tree = <<>>)
    /\ (op = "generate_ppt" /\ pc = "content_done" /\ EmptyResponse) =>
          (ErrorIndicator(content_data) /\ BlocksOf(content_data) = <<>>)

\* C10: create_presentation with a template name the registry lacks produces
\* the same slides and metadata as with the default template name
C10_UnknownTemplateSameAsDefault ==
    (op = "create_presentation" /\ pc = "done" /\ template_info.has_name
        /\ template_info.name \notin DOMAIN template_configs)
    => LET d == CreatePresentation(outline, content_data,
                                   [has_name |-> TRUE, name |-> DefaultTemplate])
       IN  prs = d.prs /\ ppt_result = d.result

----------------------------------------------------------------------------
(* Template resolution *)

\* the profile fields the registry declares for a name
ProfileFields(cfg) ==
    <<cfg.primary, cfg.secondary, cfg.accent, cfg.background, cfg.category,
      LayoutsOf(cfg)>>

\* create_presentation has resolved template_config for a name the registry lacks
UnknownNameResolved ==
    /\ created
    /\ template_info.has_name
    /\ template_info.name \notin DOMAIN template_configs

\* C11: the profile create_presentation resolves for a name the registry lacks
\* has the four palette colours, the category and the layout list of the
\* profile of the default name
C11_UnknownNameGetsDefaultProfile ==
    UnknownNameResolved =>
        ProfileFields(template_config) = ProfileFields(template_configs[DefaultTemplate])

C11_Witness ==
    /\ UnknownNameResolved
    /\ op = "create_presentation"
    /\ template_info.name = "ElegantGrey"
    /\ template_config.category = "business"

\* C12: whatever template_info names (a registered name, an unregistered name
\* or no name), create_presentation resolves one of the registry's profiles,
\* and that profile has a layout list of exactly 4 variants
C12_ResolutionTotalFourLayouts ==
    created =>
        /\ template_config \in {template_configs[n] : n \in DOMAIN template_configs}
        /\ template_config.has_layouts
        /\ Len(template_config.layouts) = 4

C12_Witness ==
    /\ created
    /\ op = "generate_ppt"
    /\ template_info.name \notin DOMAIN template_configs
    /\ Len(template_config.layouts) = 4

----------------------------------------------------------------------------
(* Outline parser *)

TreeParsed == op = "parse_outline_to_tree" /\ pc = "done"

ParsedTree == outline_result.outline_tree

NonBlank(l) == l # <<>>

\* the lines of the parsed text: stripped, blank ones left out
TreeLines ==
    LET raw == Split(outline, NL)
    IN  SelectSeq([i \in 1..Len(raw) |-> Strip(raw[i])], NonBlank)

\* number of leading heading-marker characters
MarkerDepth(l) == Len(l) - Len(LStripChars(l, {"#"}))

\* a level-1 or level-2 heading line: one or two markers, a space, a title
IsRootHeading(l) ==
    /\ MarkerDepth(l) \in {1, 2}
    /\ Len(l) > MarkerDepth(l)
    /\ l[MarkerDepth(l) + 1] = " "

\* a level-3 or deeper heading line
IsDeepHeading(l) == MarkerDepth(l) >= 3

\* an item line: the "- " marker
IsItem(l) == Len(l) >= 2 /\ l[1] = "-" /\ l[2] = " "

MarkerStripped(l) == Strip(LStripChars(l, {"#"}))

\* the members of a set of line numbers in increasing order
Ascending(S) ==
    [k \in 1..Cardinality(S) |-> CHOOSE x \in S : Cardinality({y \in S : y < x}) = k - 1]

RootLineNumbers == {i \in DOMAIN TreeLines : IsRootHeading(TreeLines[i])}

\* the line number of the root open at line i (0: none), and of the
\* subsection open at line i (0: none)
RootOpenAt(i) ==
    LET before == {j \in RootLineNumbers : j < i}
    IN  IF before = {} THEN 0 ELSE CHOOSE j \in before : \A k \in before : k <= j

SubsectionOpenAt(i) ==
    LET r == RootOpenAt(i)
        before == {j \in DOMAIN TreeLines :
                      r # 0 /\ r < j /\ j < i /\ IsDeepHeading(TreeLines[j])}
    IN  IF before = {} THEN 0 ELSE CHOOSE j \in before : \A k \in before : k <= j

Leaf(i) == [title |-> Strip(SubSeq(TreeLines[i], 3, Len(TreeLines[i]))), level |-> 3,
            children |-> <<>>]

\* the children the node opened at line r is said to get: each deeper heading
\* under it, holding the items that follow that heading, and each item that
\* comes before any deeper heading
ItemsUnder(sub) ==
    LET mine == {i \in DOMAIN TreeLines :
                    IsItem(TreeLines[i]) /\ SubsectionOpenAt(i) = sub}
        order == Ascending(mine)
    IN  [k \in DOMAIN order |-> Leaf(order[k])]

ChildrenUnder(r) ==
    LET mine == {i \in DOMAIN TreeLines :
                    /\ RootOpenAt(i) = r
                    /\ \/ IsDeepHeading(TreeLines[i])
                       \/ IsItem(TreeLines[i]) /\ SubsectionOpenAt(i) = 0}
        order == Ascending(mine)
    IN  [k \in DOMAIN order |->
            IF IsItem(TreeLines[order[k]]) THEN Leaf(order[k])
            ELSE [title |-> Strip(SubSeq(TreeLines[order[k]], 4, Len(TreeLines[order[k]]))),
                  level |-> 2, children |-> ItemsUnder(order[k])]]

\* all level-3 nodes of the tree, at either depth
LeafCount ==
    LET n(node) == IF node.level = 3 THEN 1 ELSE 0
        RECURSIVE Sum(_, _)
        Sum(f, k) == IF k = 0 THEN 0 ELSE f[k] + Sum(f, k - 1)
        under(node) ==
            Sum([c \in DOMAIN node.children |->
                    n(node.children[c]) + Len(node.children[c].children)],
                Len(node.children))
    IN  Sum([r \in DOMAIN ParsedTree |-> under(ParsedTree[r])], Len(ParsedTree))

\* C13: for a text whose lines are N level-1/level-2 heading lines and nothing
\* else, the tree has exactly N roots, one per line in line order, each of
\* level 1 with the marker-stripped title and an empty children list
C13_HeadingsOnlyGiveFlatRoots ==
    (TreeParsed /\ \A i \in DOMAIN TreeLines : IsRootHeading(TreeLines[i])) =>
        ParsedTree = [i \in DOMAIN TreeLines |->
                         [title |-> MarkerStripped(TreeLines[i]), level |-> 1,
                          children |-> <<>>]]

C13_Witness ==
    /\ TreeParsed
    /\ Len(TreeLines) = 3
    /\ \A i \in DOMAIN TreeLines : IsRootHeading(TreeLines[i])
    /\ Len(ParsedTree) = 3
    /\ ParsedTree[1].title = <<"A">>
    /\ ParsedTree[2].title = <<"T">>

\* C14 as stated: for the example outline the parser returns two root nodes
C14_ExampleTwoRootsAsStated ==
    (TreeParsed /\ outline = ExampleOutline) => Len(ParsedTree) = 2

\* C14: for the example outline the parser returns three root nodes, titled
\* "Topic", "Intro" and "Body" in that order
C14_ExampleThreeRoots ==
    (TreeParsed /\ outline = ExampleOutline) =>
        /\ Len(ParsedTree) = 3
        /\ ParsedTree[1].title = <<"T", "o", "p", "i", "c">>
        /\ ParsedTree[2].title = <<"I", "n", "t", "r", "o">>
        /\ ParsedTree[3].title = <<"B", "o", "d", "y">>

C14_Witness ==
    /\ TreeParsed
    /\ outline = ExampleOutline
    /\ Len(ParsedTree) = Cardinality(RootLineNumbers)

\* C15 as stated: every item line becomes a level-3 leaf of the tree
C15_EveryItemBecomesLeafAsStated ==
    TreeParsed =>
        LeafCount = Cardinality({i \in DOMAIN TreeLines : IsItem(TreeLines[i])})

\* C15: every "- " line that follows a level-1/level-2 heading becomes a
\* level-3 leaf with no children, appended to the subsection open at that line
\* if there is one and else to the root open at that line; a "- " line before
\* the first root is dropped. For the example outline "Topic" has no children,
\* "Intro" has the child "point a", "Body" the children "point b", "point c"
C15_ItemsAttachToOpenNode ==
    TreeParsed =>
        /\ Len(ParsedTree) = Cardinality(RootLineNumbers)
        /\ \A k \in DOMAIN ParsedTree :
              ParsedTree[k].children = ChildrenUnder(Ascending(RootLineNumbers)[k])
        /\ LeafCount = Cardinality({i \in DOMAIN TreeLines :
                                       IsItem(TreeLines[i]) /\ RootOpenAt(i) # 0})
        /\ outline = ExampleOutline =>
              /\ ParsedTree[1].children = <<>>
              /\ ParsedTree[2].children =
                    << [title |-> <<"p", "o", "i", "n", "t", " ", "a">>, level |-> 3,
                        children |-> <<>>] >>
              /\ ParsedTree[3].children =
                    << [title |-> <<"p", "o", "i", "n", "t", " ", "b">>, level |-> 3,
                        children |-> <<>>],
                       [title |-> <<"p", "o", "i", "n", "t", " ", "c">>, level |-> 3,
                        children |-> <<>>] >>

\* an item appended to the subsection that is open at its line
C15_Witness ==
    /\ TreeParsed
    /\ Len(ParsedTree) = 1
    /\ Len(ParsedTree[1].children) = 1
    /\ ParsedTree[1].children[1].level = 2
    /\ Len(ParsedTree[1].children[1].children) = 1
    /\ ParsedTree[1].children[1].children[1].level = 3

\* C16: _parse_outline_to_tree returns for every text, and for a text without
\* a level-1/level-2 heading line (the empty text, only items, only deeper
\* headings) it returns the empty list
C16_NoHeadingGivesEmptyTree ==
    TreeParsed =>
        /\ outline_result.status = "returned"
        /\ RootLineNumbers = {} => ParsedTree = <<>>

C16_Witness ==
    /\ TreeParsed
    /\ Len(TreeLines) = 3
    /\ \E i \in DOMAIN TreeLines : IsDeepHeading(TreeLines[i])
    /\ \E i \in DOMAIN TreeLines : IsItem(TreeLines[i])
    /\ RootLineNumbers = {}
    /\ ParsedTree = <<>>

----------------------------------------------------------------------------
(* Content block parser *)

ContentParsed == op = "parse_content_to_slides" /\ pc = "done"

\* generate_content has returned to generate_ppt for a collaborator text
ContentGenerated ==
    op = "generate_ppt" /\ pc = "content_done" /\ upstream.kind = "text"

\* json.loads rejects the content text
DecodeFails == ~upstream.content.isjson

\* the lines of the content text: stripped, blank ones left out
ContentLines ==
    LET raw == Split(upstream.content.text, NL)
    IN  SelectSeq([i \in 1..Len(raw) |-> Strip(raw[i])], NonBlank)

HeadingLineNumbers == {i \in DOMAIN ContentLines : ContentLines[i][1] = "#"}

BulletLineNumbers == {i \in DOMAIN ContentLines : ContentLines[i][1] = "-"}

\* the line number of the heading that precedes line i most closely (0: none)
HeadingOpenAt(i) ==
    LET before == {j \in HeadingLineNumbers : j < i}
    IN  IF before = {} THEN 0 ELSE CHOOSE j \in before : \A k \in before : k <= j

\* the marker-stripped bullet lines between heading h and the next heading
BulletsUnder(h) ==
    LET order == Ascending({i \in BulletLineNumbers : HeadingOpenAt(i) = h})
    IN  [k \in DOMAIN order |->
            StrItem(Strip(SubSeq(ContentLines[order[k]], 2, Len(ContentLines[order[k]]))))]

\* one block per heading line, numbered from 1
BlocksByHeading ==
    LET order == Ascending(HeadingLineNumbers)
    IN  [k \in DOMAIN order |->
            [isdict |-> TRUE, type |-> "content", has_title |-> TRUE,
             title |-> MarkerStripped(ContentLines[order[k]]),
             content |-> BulletsUnder(order[k]), section |-> k]]

\* C17: for a text json.loads rejects, _parse_content_to_slides returns
\* {"slides": blocks} with one block per heading line in line order: its title
\* is the marker-stripped heading, its bullets the marker-stripped bullet lines
\* up to the next heading, its section its 1-based position; the last block
\* is included.  The example text gives {A, [x, y], 1} and {B, [z], 2}
C17_FallbackBlocksPerHeading ==
    (ContentParsed /\ DecodeFails) =>
        /\ content_data = SlidesPayload(BlocksByHeading)
        /\ upstream.content.text = ExampleContent =>
              content_data.slides =
                 << [isdict |-> TRUE, type |-> "content", has_title |-> TRUE,
                     title |-> <<"A">>,
                     content |-> <<StrItem(<<"x">>), StrItem(<<"y">>)>>,
                     section |-> 1],
                    [isdict |-> TRUE, type |-> "content", has_title |-> TRUE,
                     title |-> <<"B">>, content |-> <<StrItem(<<"z">>)>>,
                     section |-> 2] >>

C17_Witness ==
    /\ ContentParsed
    /\ DecodeFails
    /\ upstream.content.text = ExampleContent
    /\ Len(content_data.slides) = 2
    /\ Len(content_data.slides[2].content) = 1

\* C18: for a text that decodes to {"slides": [...]}, _parse_content_to_slides
\* returns one block per element in the payload's order, each with the
\* element's type, title and section; for the payload of one element
\* {type "title", title "T", section 1} it returns that one block, without
\* bullets
C18_StrictBlocksPerElement ==
    (ContentParsed /\ ~DecodeFails
        /\ upstream.content.value.ty = "dict"
        /\ upstream.content.value.slides_ty = "list") =>
        LET elements == upstream.content.value.slides
            blocks == BlocksOf(content_data)
        IN  /\ content_data.ty = "dict"
            /\ content_data.slides_ty = "list"
            /\ Len(blocks) = Len(elements)
            /\ \A j \in DOMAIN elements :
                  /\ blocks[j].isdict = elements[j].isdict
                  /\ blocks[j].type = elements[j].type
                  /\ blocks[j].has_title = elements[j].has_title
                  /\ blocks[j].title = elements[j].title
                  /\ blocks[j].section = elements[j].section
            /\ (Len(elements) = 1 /\ elements[1].type = "title") =>
                  blocks = << [isdict |-> TRUE, type |-> "title", has_title |-> TRUE,
                               title |-> <<"T">>, content |-> <<>>, section |-> 1] >>

C18_Witness ==
    /\ ContentParsed
    /\ ~DecodeFails
    /\ Len(upstream.content.value.slides) = 1
    /\ upstream.content.value.slides[1].type = "title"
    /\ Len(BlocksOf(content_data)) = 1
    /\ BlocksOf(content_data)[1].title = <<"T">>

\* C19: on both tiers _parse_content_to_slides returns a payload that carries
\* a slides sequence, and so does generate_content; for a text without a
\* heading line the sequence is empty, bullet lines before a heading opening
\* no block
C19_ResultAlwaysCarriesSlides ==
    /\ ContentParsed =>
          /\ content_data.ty = "dict"
          /\ content_data.slides_ty = "list"
          /\ (DecodeFails /\ HeadingLineNumbers = {}) => content_data.slides = <<>>
    /\ ContentGenerated =>
          /\ content_data.ty = "dict"
          /\ content_data.slides_ty = "list"

----------------------------------------------------------------------------
(* Bullet normalisation *)

\* the paragraphs a content slide shows: the body frame, or the left column
\* followed by the right column
RenderedBullets(slide) == (slide.body \o slide.left) \o slide.right

\* the text a bullet item is said to give
NormalisedText(item) ==
    CASE item.kind = "str" -> item.str
      [] item.kind = "dict" /\ item.has_point -> item.point
      [] item.kind = "dict" /\ ~item.has_point /\ item.has_text -> item.text
      [] OTHER -> item.repr

\* C21: every content slide shows one paragraph per item of its block's bullet
\* list, in the list's order (left column before right column on a two-column
\* slide); after the bullet mark the paragraph is the item itself for a str,
\* else the dict's 'point', else its 'text', else str(item)
C21_BulletNormalisation ==
    \A n \in DOMAIN prs :
        prs[n].kind = "content" =>
            LET items == prs[n].slide_data.content
                shown == RenderedBullets(prs[n])
            IN  /\ Len(shown) = Len(items)
                /\ \A i \in DOMAIN items : shown[i] = BulletMark \o NormalisedText(items[i])

C21_Witness ==
    /\ op = "create_bullet_slide"
    /\ pc = "done"
    /\ Len(prs[1].left) = 1
    /\ Len(prs[1].right) = 2
    /\ prs[1].slide_data.content[1].kind = "dict"
    /\ prs[1].slide_data.content[1].has_point
    /\ prs[1].slide_data.content[2].kind = "other"
    /\ prs[1].slide_data.content[3].kind = "str"

----------------------------------------------------------------------------
(* Subsection pointer of the outline parser *)

\* the level-2 children of a root, and the number of level-3 nodes in its subtree
SubsectionsOf(root) == SelectSeq(root.children, LAMBDA c : c.level = 2)

RECURSIVE LeavesBelow(_, _)
LeavesBelow(children, k) ==
    IF k = 0 THEN 0
    ELSE (IF children[k].level = 3 THEN 1 ELSE Len(children[k].children))
         + LeavesBelow(children, k - 1)

\* C26: every level-3+ heading line under an open root is a level-2 child of
\* that root, in line order, and one without an open root gives no node; every
\* item line ends in the subtree of the root that is open at its line, so an
\* item after a new root heading is never under a subsection of an earlier root
C26_SubsectionResetOnNewRoot ==
    TreeParsed =>
        /\ Len(ParsedTree) = Cardinality(RootLineNumbers)
        /\ \A k \in DOMAIN ParsedTree :
              LET r == Ascending(RootLineNumbers)[k]
                  deep == Ascending({i \in DOMAIN TreeLines :
                                        RootOpenAt(i) = r /\ IsDeepHeading(TreeLines[i])})
                  subs == SubsectionsOf(ParsedTree[k])
              IN  /\ Len(subs) = Len(deep)
                  /\ \A j \in DOMAIN subs :
                        subs[j].title =
                           Strip(SubSeq(TreeLines[deep[j]], 4, Len(TreeLines[deep[j]])))
                  /\ LeavesBelow(ParsedTree[k].children, Len(ParsedTree[k].children)) =
                        Cardinality({i \in DOMAIN TreeLines :
                                        RootOpenAt(i) = r /\ IsItem(TreeLines[i])})

C26_Witness ==
    /\ TreeParsed
    /\ outline = ResetOutline
    /\ Len(ParsedTree) = 2
    /\ Len(ParsedTree[1].children) = 1
    /\ ParsedTree[1].children[1].children = <<>>
    /\ Len(ParsedTree[2].children) = 1
    /\ ParsedTree[2].children[1].level = 3

----------------------------------------------------------------------------
(* Presentation title *)

\* the first line of the outline text
FirstOutlineLine == Split(Strip(outline), NL)[1]

\* C30: the title slide of create_presentation carries the first outline line
\* without its heading marker, and the default title when the outline text is
\* empty
C30_TitleFromFirstLineOrDefault ==
    (created /\ prs # <<>>) =>
        prs[1].title =
            IF Strip(outline) = <<>> THEN DefaultTitle
            ELSE Strip(LStripChars(FirstOutlineLine, {"#"}))

----------------------------------------------------------------------------
(* Streaming outline generation *)

Streaming == op = "generate_outline_stream"

HasContent(x) == x.has_content

HasText(x) == x.has_content /\ x.content # <<>>

ContentsOf(xs) == [i \in DOMAIN xs |-> xs[i].content]

\* the content fragments event_generator has sent, in order
Delivered == ContentsOf(SelectSeq(stream.sse, HasContent))

\* the non-empty fragments the service has taken from the collaborator, in order
ReceivedNonEmpty ==
    ContentsOf(SelectSeq(SubSeq(stream.script.deltas, 1, stream.pos), HasText))

\* the collaborator has failed: on create() or inside the stream
UpstreamFailed ==
    /\ Streaming
    /\ stream.svc \in {"failed", "finished"}
    /\ stream.script.raises

\* C22: at every point of an outline stream the content fragments sent to the
\* consumer are the non-empty fragments received from the collaborator so
\* far, in arrival order
C22_DeliveredEqualsReceived ==
    Streaming => Delivered = ReceivedNonEmpty

\* C23: when the consumer abandons the stream before the last event, the
\* stored project outline is what it was before the stream, neither the
\* consumer nor the service retains the accumulated text, and no content
\* payload, outline result or document exists
C23_AbandonDiscardsPartial ==
    (Streaming /\ client.state = "abandoned") =>
        /\ client.outline_content = StoredOutline
        /\ client.collected_content = <<>>
        /\ stream.total_content = <<>>
        /\ stream.svc = "closed"
        /\ content_data = NullPayload
        /\ outline_result = NullOutlineResult
        /\ prs = <<>>
        /\ ~created

C23_Witness ==
    /\ Streaming
    /\ client.state = "abandoned"
    /\ client.pos = 2
    /\ stream.sse[1].content = <<"a">>
    /\ stream.sse[2].content = <<"b">>
    /\ client.outline_content = StoredOutline

\* C27: when the collaborator fails before or during the stream, the stream
\* ends with an event of status "error" that carries the failure message, no
\* content event carries the failure text, and no complete event is sent
C27_FailureIsTypedErrorEvent ==
    (UpstreamFailed /\ stream.svc = "finished") =>
        /\ stream.sse # <<>>
        /\ stream.sse[Len(stream.sse)] = ErrorEvent(stream.script.msg)
        /\ \A i \in DOMAIN stream.sse :
              /\ stream.sse[i] # CompleteEvent
              /\ stream.sse[i].has_content =>
                    stream.sse[i].content # ErrorText(stream.script.msg)

----------------------------------------------------------------------------
(* Concurrent generate-ppt requests *)

\* C24: whenever a generate-ppt request has returned its metadata, the output
\* directory holds a file of the returned filename that contains that
\* request's own deck, with the returned number of slides
C24_MetadataNamesOwnFile ==
    \A r \in Requests :
        output.job[r].phase = "returned" =>
            \E f \in output.files :
                /\ f.filename = output.job[r].result.filename
                /\ f.deck.owner = r
                /\ f.deck.slide_count = output.job[r].result.slide_count

----------------------------------------------------------------------------
(* Provider and model configuration *)

\* C25: a request that arrives when the last successful switch or save was a
\* switch-model to (provider, model) is served by a service whose provider
\* and model are that pair, and a provider request reports that pair
C25_SwitchHoldsForLaterRequests ==
    \A r \in Requests :
        LET q == backend.req[r]
        IN  (q.phase # "none" /\ q.seen.set /\ q.seen.by = "switch-model") =>
                /\ q.phase # "failed"
                /\ q.init.provider = q.seen.provider
                /\ q.init.model = q.seen.model
                /\ (q.endpoint = "provider" /\ q.phase = "finished") =>
                       /\ q.reported.provider = q.seen.provider
                       /\ q.reported.model = q.seen.model

\* C28: the provider, model and client of a generation request are those the
\* settings give, whatever another request saved or switched before the
\* service was constructed, and they stay what they were when the generation
\* call was suspended
C28_GenerationConfigNotAmbient ==
    \A r \in Requests :
        LET q == backend.req[r]
        IN  (q.endpoint = "generate-outline" /\ q.phase \in {"suspended", "finished"}) =>
                /\ q.starts = InitializeDefaultClient(backend.settings).svc
                /\ q.svc = q.starts

\* C29: a switch-model request answered with success == False leaves provider,
\* model and client of its service as they were before the switch
C29_FailedSwitchLeavesServiceUnchanged ==
    \A r \in Requests :
        LET q == backend.req[r]
        IN  (q.endpoint = "switch-model" /\ q.phase = "finished"
                /\ q.success = "false") =>
                q.svc = q.pre

====
